---- MODULE Spec2Model ----
(***************************************************************************)
(* claude-sessions: labels of sessions kept in one JSON file.              *)
(*                                                                         *)
(*   src/src/data.rs      Session, Label, Store and their methods          *)
(*   src/src/storage.rs   Storage::load / Storage::save                    *)
(*   src/src/commands.rs  add, resume, list, remove, describe, config      *)
(*                                                                         *)
(* The specifications share the variables:                                 *)
(*   Spec         sequential command invocations against the data file     *)
(*   SpecFault    the same, where fs::write may fail                       *)
(*   SpecRace     two invocations running at the same time                 *)
(*   SpecLabel    the methods of one in-memory Label                       *)
(*   SpecStore    the methods of one in-memory Store                       *)
(*   SpecStorage  Storage::save and Storage::load on in-memory stores      *)
(*   SpecPair     command invocations in a row, the one before kept        *)
(***************************************************************************)
EXTENDS Integers, Sequences, FiniteSets, TLC

VARIABLES
    file,   \* the data file: missing, raw text, or a JSON document
    last,   \* the last call made: its name, arguments, inputs and outcome
    lbl,    \* SpecLabel: the Label value the methods act on
    store,  \* SpecStorage, SpecStore: the in-memory Store of the caller
    procs   \* SpecRace: the two processes, each with its command and memory;
            \* SpecPair: the call made before the last one

vars == <<file, last, lbl, store, procs>>

-----------------------------------------------------------------------------
(* Bounds and input sets                                                   *)

MaxSessions == 2    \* Spec: add is taken while the store holds fewer sessions
MaxLen == 3         \* SpecLabel: add_session is taken on shorter sequences
MaxSaved == 2       \* SpecStorage: the most sessions a store to save holds
MaxPushed == 2      \* SpecStore: add_session is taken on shorter sequences
MaxPair == 2        \* SpecPair: add is taken while the store holds fewer

LabelNames == {"a", "b"}
SessionIds == {"x", "y"}
Descriptions == {""}
Times == {1, 2}             \* Utc::now(), seconds of the epoch
Cwds == {"/p"}              \* env::current_dir()
Paths == {"/p", "/q"}       \* SpecLabel: the paths of the sessions pushed
LabelTimes == {1, 2, 3}     \* SpecLabel: their timestamps
SavedDescriptions == {"", "d"}  \* SpecStorage: descriptions of what is saved
StoreDescriptions == {"d"}      \* SpecStore: descriptions of inserted labels

-----------------------------------------------------------------------------
(* Option<T> and Result<T>                                                 *)

None == <<>>
Some(x) == <<x>>
IsSome(o) == Len(o) = 1
Unwrap(o) == o[1]

Ok(v) == [ok |-> TRUE, v |-> v]
Err(e) == [ok |-> FALSE, e |-> e]

OptDescriptions == {None} \cup {Some(d) : d \in Descriptions}

-----------------------------------------------------------------------------
(* data.rs: Session, Label, Store                                          *)

Session(session_id, path, description, created_at) ==
    [session_id |-> session_id, path |-> path,
     description |-> description, created_at |-> created_at]

LabelNew(description) == [description |-> description, sessions |-> <<>>]

\* Variant: an insert keyed by session_id, replacing an entry with the same id.
add_session_keyed(label, session) ==
    IF \E i \in 1..Len(label.sessions) :
           label.sessions[i].session_id = session.session_id
    THEN [label EXCEPT !.sessions =
            [i \in 1..Len(@) |->
                IF @[i].session_id = session.session_id THEN session ELSE @[i]]]
    ELSE [label EXCEPT !.sessions = Append(@, session)]

add_session(label, session) ==
    [label EXCEPT !.sessions = Append(@, session)]

\* Variant: a scan that keeps the earlier element when the keys compare
\* equal, as Iterator::min_by_key and a fold with > do.
RECURSIVE MaxByKeyFromFirst(_, _, _)
MaxByKeyFromFirst(sessions, i, best) ==
    IF i > Len(sessions) THEN best
    ELSE MaxByKeyFromFirst(sessions, i + 1,
            IF best = 0 \/ sessions[i].created_at > sessions[best].created_at
            THEN i ELSE best)

\* Iterator::max_by_key: a left-to-right scan that keeps the later element
\* when the keys compare equal. The result is the index kept, 0 for none.
RECURSIVE MaxByKeyFrom(_, _, _)
MaxByKeyFrom(sessions, i, best) ==
    IF i > Len(sessions) THEN best
    ELSE MaxByKeyFrom(sessions, i + 1,
            IF best = 0 \/ sessions[i].created_at >= sessions[best].created_at
            THEN i ELSE best)

latest_index(label) == MaxByKeyFrom(label.sessions, 1, 0)

\* Variant: the most recently pushed session, self.sessions.last().
latest_session_pushed(label) ==
    IF label.sessions = <<>> THEN None
    ELSE Some(label.sessions[Len(label.sessions)])

latest_session(label) ==
    IF latest_index(label) = 0 THEN None
    ELSE Some(label.sessions[latest_index(label)])

\* Variant: removes the first match only (position + remove).
remove_session_first(label, session_id) ==
    LET hits == {i \in 1..Len(label.sessions) :
                    label.sessions[i].session_id = session_id}
        first == CHOOSE i \in hits : \A j \in hits : i <= j
    IN  IF hits = {} THEN [label |-> label, ret |-> FALSE]
        ELSE [label |-> [label EXCEPT !.sessions =
                            SubSeq(@, 1, first - 1) \o SubSeq(@, first + 1, Len(@))],
              ret |-> TRUE]

\* Variant: reports a removal whether or not anything matched.
remove_session_unreported(label, session_id) ==
    [label |-> [label EXCEPT !.sessions =
                   SelectSeq(@, LAMBDA s : s.session_id # session_id)],
     ret |-> TRUE]

\* Variant: the test of retain turned round, keeping the matches.
remove_session_inverted(label, session_id) ==
    LET kept == SelectSeq(label.sessions, LAMBDA s : s.session_id = session_id)
    IN  [label |-> [label EXCEPT !.sessions = kept],
         ret |-> Len(kept) < Len(label.sessions)]

\* Vec::retain(|s| s.session_id != session_id), then the length comparison.
remove_session(label, session_id) ==
    LET kept == SelectSeq(label.sessions, LAMBDA s : s.session_id # session_id)
    IN  [label |-> [label EXCEPT !.sessions = kept],
         ret |-> Len(kept) < Len(label.sessions)]

StoreNew == [labels |-> <<>>]

HasLabel(st, name) == name \in DOMAIN st.labels

get_label(st, name) ==
    IF HasLabel(st, name) THEN Some(st.labels[name]) ELSE None

\* HashMap::insert of a key that may be new.
Insert(labels, name, label) ==
    [n \in DOMAIN labels \cup {name} |-> IF n = name THEN label ELSE labels[n]]

\* Variant: HashMap::insert in place of entry().or_insert_with(): a label
\* that exists is replaced by a new one.
get_or_create_label_replacing(st, name) ==
    [st EXCEPT !.labels = Insert(@, name, LabelNew(None))]

get_or_create_label(st, name) ==
    IF HasLabel(st, name) THEN st
    ELSE [st EXCEPT !.labels = Insert(@, name, LabelNew(None))]

\* Variant: empties the label and keeps its entry in the map.
remove_label_emptied(st, name) ==
    [store |-> IF HasLabel(st, name)
               THEN [st EXCEPT !.labels[name].sessions = <<>>] ELSE st,
     ret |-> HasLabel(st, name)]

\* Variant: reports a removal whether or not there was an entry.
remove_label_unreported(st, name) ==
    [store |-> [st EXCEPT !.labels = [n \in DOMAIN @ \ {name} |-> @[n]]],
     ret |-> TRUE]

remove_label(st, name) ==
    [store |-> [st EXCEPT !.labels = [n \in DOMAIN @ \ {name} |-> @[n]]],
     ret |-> HasLabel(st, name)]

-----------------------------------------------------------------------------
(* The JSON document of the data file, as serde_json reads and writes it   *)

JNull == [t |-> "null"]
JStr(s) == [t |-> "str", s |-> s]
JArr(a) == [t |-> "arr", a |-> a]
JObj(m) == [t |-> "obj", m |-> m]

HasKey(j, k) == j.t = "obj" /\ k \in DOMAIN j.m
IsStrAt(j, k) == HasKey(j, k) /\ j.m[k].t = "str"

\* chrono's serde form of DateTime<Utc>: an RFC 3339 string, parsed back by
\* the inverse reading; a string that is no timestamp is rejected.
Rfc3339(secs) == "1970-01-01T00:00:0" \o ToString(secs) \o "Z"

Epoch == 0..9

TsTable == [t \in Epoch |-> Rfc3339(t)]

FormatTs(created_at) == TsTable[created_at]

ParseTs(s) ==
    IF \E t \in Epoch : TsTable[t] = s
    THEN Ok(CHOOSE t \in Epoch : TsTable[t] = s)
    ELSE Err("parse")

\* Variant: without skip_serializing_if and with the text defaulted, None is
\* written as the empty string.
SerOptionalDefaulted(m, description) ==
    Insert(m, "description",
           JStr(IF IsSome(description) THEN Unwrap(description) ELSE ""))

\* #[serde(default, skip_serializing_if = "Option::is_none")]: the key is
\* written only for Some(_).
SerOptional(m, description) ==
    IF IsSome(description)
    THEN Insert(m, "description", JStr(Unwrap(description)))
    ELSE m

\* A missing key and a JSON null both read as None.
DeOptional(j) ==
    IF ~HasKey(j, "description") THEN Ok(None)
    ELSE IF j.m["description"].t = "null" THEN Ok(None)
    ELSE IF j.m["description"].t = "str" THEN Ok(Some(j.m["description"].s))
    ELSE Err("parse")

SerSession(s) ==
    JObj(SerOptional(
        [k \in {"session_id", "path", "created_at"} |->
            CASE k = "session_id" -> JStr(s.session_id)
              [] k = "path" -> JStr(s.path)
              [] k = "created_at" -> JStr(FormatTs(s.created_at))],
        s.description))

\* The derived Deserialize of each struct, in two halves: whether the value
\* is accepted, and what is built from an accepted value.
SessionAccepted(j) ==
    /\ IsStrAt(j, "session_id")
    /\ IsStrAt(j, "path")
    /\ IsStrAt(j, "created_at")
    /\ ParseTs(j.m["created_at"].s).ok
    /\ DeOptional(j).ok

SessionRead(j) ==
    Session(j.m["session_id"].s, j.m["path"].s, DeOptional(j).v,
            ParseTs(j.m["created_at"].s).v)

DeSession(j) == IF SessionAccepted(j) THEN Ok(SessionRead(j)) ELSE Err("parse")

SerLabel(l) ==
    JObj(SerOptional(
        [k \in {"sessions"} |->
            JArr([i \in 1..Len(l.sessions) |-> SerSession(l.sessions[i])])],
        l.description))

LabelAccepted(j) ==
    /\ HasKey(j, "sessions")
    /\ j.m["sessions"].t = "arr"
    /\ \A i \in 1..Len(j.m["sessions"].a) : SessionAccepted(j.m["sessions"].a[i])
    /\ DeOptional(j).ok

LabelRead(j) ==
    [description |-> DeOptional(j).v,
     sessions |-> [i \in 1..Len(j.m["sessions"].a) |->
                      SessionRead(j.m["sessions"].a[i])]]

DeLabel(j) == IF LabelAccepted(j) THEN Ok(LabelRead(j)) ELSE Err("parse")

SerStore(st) ==
    JObj([k \in {"labels"} |->
            JObj([n \in DOMAIN st.labels |-> SerLabel(st.labels[n])])])

StoreAccepted(j) ==
    /\ HasKey(j, "labels")
    /\ j.m["labels"].t = "obj"
    /\ \A n \in DOMAIN j.m["labels"].m : LabelAccepted(j.m["labels"].m[n])

StoreRead(j) ==
    [labels |-> [n \in DOMAIN j.m["labels"].m |-> LabelRead(j.m["labels"].m[n])]]

DeStore(j) == IF StoreAccepted(j) THEN Ok(StoreRead(j)) ELSE Err("parse")

\* serde_json::to_string_pretty: the number of bytes of the text of a value
\* that starts at the given depth, with its two spaces of indent a level,
\* one entry a line, ": " after a key and "," between entries. The strings
\* of the model need no escapes.
RECURSIVE PrettyLen(_, _)
RECURSIVE PrettyEntries(_, _, _)
RECURSIVE PrettyItems(_, _, _)
PrettyEntries(m, keys, depth) ==
    IF keys = {} THEN 0
    ELSE LET k == CHOOSE k \in keys : TRUE
         IN  1 + 2 * depth + (Len(k) + 2) + 2 + PrettyLen(m[k], depth)
               + PrettyEntries(m, keys \ {k}, depth)

PrettyItems(a, i, depth) ==
    IF i > Len(a) THEN 0
    ELSE 1 + 2 * depth + PrettyLen(a[i], depth) + PrettyItems(a, i + 1, depth)

PrettyLen(j, depth) ==
    CASE j.t = "null" -> 4
      [] j.t = "str" -> Len(j.s) + 2
      [] j.t = "arr" ->
            IF j.a = <<>> THEN 2
            ELSE 1 + PrettyItems(j.a, 1, depth + 1) + (Len(j.a) - 1)
                   + 1 + 2 * depth + 1
      [] j.t = "obj" ->
            IF DOMAIN j.m = {} THEN 2
            ELSE 1 + PrettyEntries(j.m, DOMAIN j.m, depth + 1)
                   + (Cardinality(DOMAIN j.m) - 1) + 1 + 2 * depth + 1

-----------------------------------------------------------------------------
(* storage.rs: the data file, Storage::load and Storage::save              *)

\* The file is missing, or holds text. Text that is a JSON document is kept
\* as the document (JsonText); RawText is text that is no JSON document,
\* kept as its characters.
Missing == [kind |-> "missing"]
RawText(chars) == [kind |-> "text", chars |-> chars]
JsonText(j) == [kind |-> "json", doc |-> j]

Whitespace == {" ", "\n", "\t", "\r"}

\* Variant: content.is_empty(), without the trim.
IsEmptyUntrimmed(f) == f.kind = "text" /\ f.chars = <<>>

\* content.trim().is_empty()
TrimIsEmpty(f) ==
    /\ f.kind = "text"
    /\ \A i \in 1..Len(f.chars) : f.chars[i] \in Whitespace

\* Variant: #[serde(default)] on the labels of Store, a document without
\* them reading as the empty store.
FromStrDefaulting(f) ==
    IF f.kind # "json" THEN Err("parse")
    ELSE IF f.doc.t = "obj" /\ ~HasKey(f.doc, "labels") THEN Ok(StoreNew)
    ELSE DeStore(f.doc)

\* serde_json::from_str::<Store>(&content)
FromStr(f) == IF f.kind = "json" THEN DeStore(f.doc) ELSE Err("parse")

\* Variant: a parse failure falls back to the default store
\* (unwrap_or_default).
LoadOrDefault(f) ==
    IF f.kind = "missing" THEN Ok(StoreNew)
    ELSE IF TrimIsEmpty(f) THEN Ok(StoreNew)
    ELSE IF FromStr(f).ok THEN FromStr(f) ELSE Ok(StoreNew)

Load(f) ==
    IF f.kind = "missing" THEN Ok(StoreNew)
    ELSE IF TrimIsEmpty(f) THEN Ok(StoreNew)
    ELSE FromStr(f)

\* serde_json::to_string_pretty(store): the text save hands to fs::write.
Save(st) == JsonText(SerStore(st))

\* fs::write(path, content) opens the file truncating it and then writes the
\* text. It answers Ok with the whole text written, or an error: the open was
\* refused and the file is as it was, or a write failed after the open, and
\* the file is left cut to nothing or holding a first piece of the text.
WriteAnswers == {"written", "refused", "truncated", "torn"}

FsWrite(f, content, write) ==
    CASE write = "written" -> content
      [] write = "refused" -> f
      [] write = "truncated" -> RawText(<<>>)
      [] OTHER -> RawText(<<"{">>)

EmptyText == RawText(<<>>)
WhitespaceText == RawText(<<" ", " ", " ", "\n", "\t", " ", " ", "\n", " ", " ">>)
CorruptText == RawText(<<"{", " ", "n", "o", "t", " ", "v", "a", "l", "i", "d", " ",
                         "j", "s", "o", "n", " ", "}">>)
PartialText == RawText(<<"{", "\"", "l", "a", "b", "e", "l", "s", "\"", ":", "{">>)
\* JSON documents that are no Store: {} and {"labels":{"a":{}}}
NoLabelsDoc == JsonText(JObj(<<>>))
NoSessionsDoc == JsonText(JObj([k \in {"labels"} |->
                    JObj([n \in {"a"} |-> JObj(<<>>)])]))

BlankFiles == {EmptyText, WhitespaceText}
MalformedFiles == {CorruptText, PartialText, NoLabelsDoc, NoSessionsDoc}

\* fs::write step by step, as another process can see it: File::create opens
\* the file, making it or cutting it to nothing, and write_all then writes
\* the text from the start of the file. Where the file has meanwhile grown
\* longer than the text, by the write of another process, the rest of what
\* was there stays behind the text: MixedText, which is no JSON document.
MixedText(content, under) ==
    [kind |-> "mixed", head |-> content, under |-> under]

RECURSIVE FileLen(_)
FileLen(f) ==
    CASE f.kind = "missing" -> 0
      [] f.kind = "text" -> Len(f.chars)
      [] f.kind = "json" -> PrettyLen(f.doc, 0)
      [] OTHER -> FileLen(f.under)

FsCreate(f) == RawText(<<>>)

FsWriteAll(f, content) ==
    IF FileLen(f) <= FileLen(content) THEN content ELSE MixedText(content, f)

-----------------------------------------------------------------------------
(* commands.rs: one operator per command. Each takes the data file and the *)
(* answers of the collaborators it may consult, and yields the file it     *)
(* leaves, its result and what it showed or invoked.                       *)

Outcome(f, result) ==
    [file |-> f, result |-> result, saves |-> 0, out |-> <<>>,
     selector |-> <<>>, runner |-> <<>>]

\* storage.save(&store)?: the command goes on after Ok and returns the
\* error otherwise.
Saved(f, st, write) ==
    [Outcome(FsWrite(f, Save(st), write),
             IF write = "written" THEN "ok" ELSE "save_error")
        EXCEPT !.saves = 1]

\* sessions.sort_by(|a, b| b.created_at.cmp(&a.created_at)): a stable sort,
\* most recent first; equal timestamps keep their order in the label.
\* Variant: a sort that is not stable, a session going before those of its
\* own timestamp.
RECURSIVE InsertDescUnstable(_, _)
InsertDescUnstable(sorted, s) ==
    IF sorted = <<>> THEN <<s>>
    ELSE IF Head(sorted).created_at > s.created_at
         THEN <<Head(sorted)>> \o InsertDescUnstable(Tail(sorted), s)
         ELSE <<s>> \o sorted

RECURSIVE InsertDesc(_, _)
InsertDesc(sorted, s) ==
    IF sorted = <<>> THEN <<s>>
    ELSE IF Head(sorted).created_at >= s.created_at
         THEN <<Head(sorted)>> \o InsertDesc(Tail(sorted), s)
         ELSE <<s>> \o sorted

RECURSIVE SortDescFrom(_, _, _)
SortDescFrom(sessions, i, sorted) ==
    IF i > Len(sessions) THEN sorted
    ELSE SortDescFrom(sessions, i + 1, InsertDesc(sorted, sessions[i]))

\* Variant: a.created_at.cmp(&b.created_at), the oldest first.
SortAsc(sessions) ==
    LET sorted == SortDescFrom(sessions, 1, <<>>)
    IN  [i \in 1..Len(sorted) |-> sorted[Len(sorted) + 1 - i]]

SortDesc(sessions) == SortDescFrom(sessions, 1, <<>>)

\* labels.sort_by_key(|(name, _)| *name): the order of String on the names
\* the model uses.
NameRank(name) == CASE name = "a" -> 1 [] name = "b" -> 2 [] OTHER -> 3

\* Variant: the names in descending order.
RECURSIVE SortByNameReversed(_)
SortByNameReversed(names) ==
    IF names = {} THEN <<>>
    ELSE LET first == CHOOSE n \in names :
                          \A m \in names : NameRank(n) >= NameRank(m)
         IN  <<first>> \o SortByNameReversed(names \ {first})

RECURSIVE SortByName(_)
SortByName(names) ==
    IF names = {} THEN <<>>
    ELSE LET first == CHOOSE n \in names :
                          \A m \in names : NameRank(n) <= NameRank(m)
         IN  <<first>> \o SortByName(names \ {first})

add(f, label, session_id, description, cwd, now, write) ==
    LET loaded == Load(f)
        session == Session(session_id, cwd.v, description, now)
        created == get_or_create_label(loaded.v, label)
        added == [created EXCEPT !.labels[label] = add_session(@, session)]
    IN  IF ~loaded.ok THEN Outcome(f, "load_error")
        ELSE IF ~cwd.ok THEN Outcome(f, "cwd_error")
        ELSE Saved(f, added, write)

\* Select::interact() answers Ok(index), counted from 0 and within the items
\* it was given, or an error.
SelectorAnswers(items) ==
    {Ok(i) : i \in 0..(Len(items) - 1)} \cup {Err("selector_error")}

\* Variant: the index is taken in the label's own order.
pick_session_unsorted(label, answer) ==
    IF answer.ok THEN Ok(label.sessions[answer.v + 1])
    ELSE Err("selector_error")

\* pick_session: sorts, asks the selector, which answers an index or an
\* error (?), and returns sessions[selection] of the sorted sessions.
pick_session(label, answer) ==
    IF answer.ok THEN Ok(SortDesc(label.sessions)[answer.v + 1])
    ELSE Err("selector_error")

\* Variant: the exit status is not looked at.
run_result_unchecked(status) ==
    IF status = "launch_error" THEN "launch_error" ELSE "ok"

\* What resume returns after Command::status(): the launch error under its
\* context, bail!("Claude exited with status: ..") for a status that is not
\* a success, Ok(()) otherwise.
run_result(status) ==
    IF status = "launch_error" THEN "launch_error"
    ELSE IF status # "ok" THEN "exit_status"
    ELSE "ok"

\* Variant: a lookup that takes the default (empty) label for a missing one.
label_entry_or_default(st, label) ==
    IF HasLabel(st, label) /\ st.labels[label].sessions # <<>>
    THEN Ok(st.labels[label]) ELSE Err("no_sessions")

\* resume's lookup of the label and its check that it holds a session.
label_entry_of(st, label) ==
    IF ~HasLabel(st, label) THEN Err("label_not_found")
    ELSE IF st.labels[label].sessions = <<>> THEN Err("no_sessions")
    ELSE Ok(st.labels[label])

resume(f, label, pick, answer, status) ==
    LET loaded == Load(f)
        found == label_entry_of(loaded.v, label)
        label_entry == found.v
        picking == pick /\ Len(label_entry.sessions) > 1
        session == IF picking THEN pick_session(label_entry, answer)
                   ELSE Ok(Unwrap(latest_session(label_entry)))
        asked == IF picking
                 THEN <<[items |-> SortDesc(label_entry.sessions),
                         answer |-> answer]>>
                 ELSE <<>>
        launched == <<[session_id |-> session.v.session_id,
                       current_dir |-> session.v.path,
                       status |-> status]>>
    IN  IF ~loaded.ok THEN Outcome(f, "load_error")
        ELSE IF ~found.ok THEN Outcome(f, found.e)
        ELSE IF ~session.ok
             THEN [Outcome(f, "selector_error") EXCEPT !.selector = asked]
        ELSE [Outcome(f, run_result(status)) EXCEPT
                 !.selector = asked, !.runner = launched]

list(f, label) ==
    LET loaded == Load(f)
        names == SortByName(DOMAIN loaded.v.labels)
    IN  IF ~loaded.ok THEN Outcome(f, "load_error")
        ELSE IF IsSome(label)
        THEN IF ~HasLabel(loaded.v, Unwrap(label))
             THEN Outcome(f, "label_not_found")
             ELSE [Outcome(f, "ok") EXCEPT
                      !.out = SortDesc(loaded.v.labels[Unwrap(label)].sessions)]
        ELSE [Outcome(f, "ok") EXCEPT
                 !.out = [i \in 1..Len(names) |->
                            [name |-> names[i],
                             session_count |-> Len(loaded.v.labels[names[i]].sessions),
                             description |-> loaded.v.labels[names[i]].description]]]

\* Variant: a label that loses its last session is removed with it.
remove_pruning(f, label, session_id, write) ==
    LET loaded == Load(f)
        removed == remove_session(loaded.v.labels[label], Unwrap(session_id))
        dropped == remove_label(loaded.v, label)
    IN  IF ~loaded.ok THEN Outcome(f, "load_error")
        ELSE IF IsSome(session_id)
        THEN IF ~HasLabel(loaded.v, label) THEN Outcome(f, "label_not_found")
             ELSE IF ~removed.ret THEN Outcome(f, "session_not_found")
             ELSE IF removed.label.sessions = <<>>
                  THEN Saved(f, dropped.store, write)
                  ELSE Saved(f, [loaded.v EXCEPT !.labels[label] = removed.label],
                             write)
        ELSE IF dropped.ret THEN Saved(f, dropped.store, write)
             ELSE Outcome(f, "label_not_found")

remove(f, label, session_id, write) ==
    LET loaded == Load(f)
        removed == remove_session(loaded.v.labels[label], Unwrap(session_id))
        dropped == remove_label(loaded.v, label)
    IN  IF ~loaded.ok THEN Outcome(f, "load_error")
        ELSE IF IsSome(session_id)
        THEN IF ~HasLabel(loaded.v, label) THEN Outcome(f, "label_not_found")
             ELSE IF removed.ret
                  THEN Saved(f, [loaded.v EXCEPT !.labels[label] = removed.label],
                             write)
                  ELSE Outcome(f, "session_not_found")
        ELSE IF dropped.ret THEN Saved(f, dropped.store, write)
             ELSE Outcome(f, "label_not_found")

\* Variant: looks the label up with get_or_create_label.
describe_creating(f, label, description, write) ==
    LET loaded == Load(f)
        created == get_or_create_label(loaded.v, label)
    IN  IF ~loaded.ok THEN Outcome(f, "load_error")
        ELSE Saved(f, [created EXCEPT !.labels[label].description = description],
                   write)

\* Variant: the label is replaced by a new one of the given description.
describe_resetting(f, label, description, write) ==
    LET loaded == Load(f)
    IN  IF ~loaded.ok THEN Outcome(f, "load_error")
        ELSE IF ~HasLabel(loaded.v, label) THEN Outcome(f, "label_not_found")
        ELSE Saved(f, [loaded.v EXCEPT !.labels[label] = LabelNew(description)],
                   write)

describe(f, label, description, write) ==
    LET loaded == Load(f)
    IN  IF ~loaded.ok THEN Outcome(f, "load_error")
        ELSE IF ~HasLabel(loaded.v, label) THEN Outcome(f, "label_not_found")
        ELSE Saved(f, [loaded.v EXCEPT !.labels[label].description = description],
                   write)

\* Variant: config writes the data file it names when there is none.
config_creating(f) ==
    IF f.kind = "missing" THEN Saved(f, StoreNew, "written")
    ELSE Outcome(f, "ok")

config(f) == Outcome(f, "ok")

-----------------------------------------------------------------------------
(* Spec: command invocations, one process after the other                  *)

\* {"labels":{"a":{"description":null,"sessions":[]}}}, written by hand
NullDescriptionDoc ==
    JsonText(JObj([k \in {"labels"} |->
        JObj([n \in {"a"} |->
            JObj([c \in {"description", "sessions"} |->
                    IF c = "description" THEN JNull ELSE JArr(<<>>)])])]))

InitFiles == {Missing, NullDescriptionDoc} \cup BlankFiles \cup MalformedFiles

Call(op, before) ==
    [op |-> op, label |-> None, session_id |-> None, description |-> None,
     pick |-> FALSE, cwd |-> None, now |-> None,
     before |-> before, result |-> "ok", saves |-> 0, out |-> <<>>,
     selector |-> <<>>, runner |-> <<>>]

Returned(call, outcome) ==
    [call EXCEPT !.result = outcome.result, !.saves = outcome.saves,
                 !.out = outcome.out, !.selector = outcome.selector,
                 !.runner = outcome.runner]

RECURSIVE SumSessions(_, _)
SumSessions(st, names) ==
    IF names = {} THEN 0
    ELSE LET n == CHOOSE n \in names : TRUE
         IN  Len(st.labels[n].sessions) + SumSessions(st, names \ {n})

TotalSessions(f) ==
    LET loaded == Load(f)
    IN  IF loaded.ok THEN SumSessions(loaded.v, DOMAIN loaded.v.labels) ELSE 0

\* No process is running: the next command line can be entered.
Idle == last.op = "none"

Init ==
    /\ file \in InitFiles
    /\ last = Call("none", file)
    /\ lbl = LabelNew(None)
    /\ store = StoreNew
    /\ procs = <<>>

Add(label, session_id, description, cwd, now, write) ==
    LET outcome == add(file, label, session_id, description, cwd, now, write)
    IN  /\ Idle
        /\ file' = outcome.file
        /\ last' = Returned(
              [Call("add", file) EXCEPT
                  !.label = Some(label), !.session_id = Some(session_id),
                  !.description = description,
                  !.cwd = IF outcome.result # "load_error" /\ cwd.ok
                          THEN Some(cwd.v) ELSE None,
                  !.now = IF outcome.result = "ok" THEN Some(now) ELSE None],
              outcome)
        /\ UNCHANGED <<lbl, store, procs>>

Resume(label, pick, answer, status) ==
    LET outcome == resume(file, label, pick, answer, status)
    IN  /\ Idle
        /\ file' = outcome.file
        /\ last' = Returned(
              [Call("resume", file) EXCEPT !.label = Some(label), !.pick = pick],
              outcome)
        /\ UNCHANGED <<lbl, store, procs>>

List(label) ==
    LET outcome == list(file, label)
    IN  /\ Idle
        /\ file' = outcome.file
        /\ last' = Returned([Call("list", file) EXCEPT !.label = label],
                            outcome)
        /\ UNCHANGED <<lbl, store, procs>>

Remove(label, session_id, write) ==
    LET outcome == remove(file, label, session_id, write)
    IN  /\ Idle
        /\ file' = outcome.file
        /\ last' = Returned(
              [Call("remove", file) EXCEPT
                  !.label = Some(label), !.session_id = session_id],
              outcome)
        /\ UNCHANGED <<lbl, store, procs>>

Describe(label, description, write) ==
    LET outcome == describe(file, label, description, write)
    IN  /\ Idle
        /\ file' = outcome.file
        /\ last' = Returned(
              [Call("describe", file) EXCEPT
                  !.label = Some(label), !.description = description],
              outcome)
        /\ UNCHANGED <<lbl, store, procs>>

Config ==
    /\ Idle
    /\ file' = config(file).file
    /\ last' = Returned(Call("config", file), config(file))
    /\ UNCHANGED <<lbl, store, procs>>

\* main returns: the process ends and only the data file is left.
Exit ==
    /\ ~Idle
    /\ last' = Call("none", file)
    /\ UNCHANGED <<file, lbl, store, procs>>

CwdAnswers == {Ok(d) : d \in Cwds} \cup {Err("cwd_error")}
\* The sessions of the label as the file holds them, none when it has none.
SessionsOf(f, label) ==
    LET loaded == Load(f)
    IN  IF loaded.ok /\ HasLabel(loaded.v, label)
        THEN loaded.v.labels[label].sessions ELSE <<>>
RunnerAnswers == {"ok", "launch_error", "exit_status"}

Next ==
    \/ /\ Idle
       /\ TotalSessions(file) < MaxSessions
       /\ \E label \in LabelNames, session_id \in SessionIds,
             description \in OptDescriptions, cwd \in CwdAnswers, now \in Times :
             Add(label, session_id, description, cwd, now, "written")
    \/ /\ Idle
       /\ \E label \in LabelNames, pick \in BOOLEAN :
             \E answer \in SelectorAnswers(SessionsOf(file, label)),
                status \in RunnerAnswers :
                 Resume(label, pick, answer, status)
    \/ /\ Idle
       /\ \E label \in {None} \cup {Some(n) : n \in LabelNames} : List(label)
    \/ /\ Idle
       /\ \E label \in LabelNames,
             session_id \in {None} \cup {Some(i) : i \in SessionIds} :
             Remove(label, session_id, "written")
    \/ /\ Idle
       /\ \E label \in LabelNames, description \in OptDescriptions :
             Describe(label, description, "written")
    \/ Config
    \/ Exit

Spec == Init /\ [][Next]_vars

-----------------------------------------------------------------------------
(* SpecFault: the same command invocations where fs::write may fail        *)

NextFault ==
    \/ /\ Idle
       /\ TotalSessions(file) < MaxSessions
       /\ \E label \in LabelNames, session_id \in SessionIds,
             description \in OptDescriptions, cwd \in CwdAnswers, now \in Times,
             write \in WriteAnswers :
             Add(label, session_id, description, cwd, now, write)
    \/ /\ Idle
       /\ \E label \in LabelNames, pick \in BOOLEAN :
             \E answer \in SelectorAnswers(SessionsOf(file, label)),
                status \in RunnerAnswers :
                 Resume(label, pick, answer, status)
    \/ /\ Idle
       /\ \E label \in {None} \cup {Some(n) : n \in LabelNames} : List(label)
    \/ /\ Idle
       /\ \E label \in LabelNames,
             session_id \in {None} \cup {Some(i) : i \in SessionIds},
             write \in WriteAnswers :
             Remove(label, session_id, write)
    \/ /\ Idle
       /\ \E label \in LabelNames, description \in OptDescriptions,
             write \in WriteAnswers :
             Describe(label, description, write)
    \/ Config
    \/ Exit

SpecFault == Init /\ [][NextFault]_vars

-----------------------------------------------------------------------------
(* SpecRace: two invocations of mutating commands at the same time. Each   *)
(* loads the file and changes its own store in memory, then saves: it      *)
(* opens the file, which truncates it, and writes its text. The steps of   *)
(* the two interleave in any order; nothing locks the file. A process can  *)
(* be killed between its steps. events lists what a process has done.      *)

Procs == {1, 2}

\* The command lines the two processes are started with.
RaceCommands ==
    {[op |-> "add", label |-> l, session_id |-> Some(i), description |-> None]
        : l \in LabelNames, i \in SessionIds}
    \cup {[op |-> "remove", label |-> l, session_id |-> i, description |-> None]
        : l \in LabelNames, i \in {None, Some("x")}}
    \cup {[op |-> "describe", label |-> l, session_id |-> None, description |-> d]
        : l \in LabelNames, d \in {None, Some("d")}}

\* Variant: remove goes on to save whatever remove_session returned.
MutateUnchecked(cmd, st, cwd, now) ==
    LET label == cmd.label
        session == Session(Unwrap(cmd.session_id), cwd, cmd.description, now)
        removed == remove_session(st.labels[label], Unwrap(cmd.session_id))
        dropped == remove_label(st, label)
    IN  CASE cmd.op = "add" ->
               Ok([get_or_create_label(st, label) EXCEPT
                      !.labels[label] = add_session(@, session)])
          [] cmd.op = "remove" /\ IsSome(cmd.session_id) ->
               IF ~HasLabel(st, label) THEN Err("label_not_found")
               ELSE Ok([st EXCEPT !.labels[label] = removed.label])
          [] cmd.op = "remove" /\ ~IsSome(cmd.session_id) ->
               IF dropped.ret THEN Ok(dropped.store) ELSE Err("label_not_found")
          [] cmd.op = "describe" ->
               IF ~HasLabel(st, label) THEN Err("label_not_found")
               ELSE Ok([st EXCEPT !.labels[label].description = cmd.description])

\* What a command does to the store it loaded, before it saves: the new
\* store, or the error it returns without saving.
Mutate(cmd, st, cwd, now) ==
    LET label == cmd.label
        session == Session(Unwrap(cmd.session_id), cwd, cmd.description, now)
        removed == remove_session(st.labels[label], Unwrap(cmd.session_id))
        dropped == remove_label(st, label)
    IN  CASE cmd.op = "add" ->
               Ok([get_or_create_label(st, label) EXCEPT
                      !.labels[label] = add_session(@, session)])
          [] cmd.op = "remove" /\ IsSome(cmd.session_id) ->
               IF ~HasLabel(st, label) THEN Err("label_not_found")
               ELSE IF removed.ret
                    THEN Ok([st EXCEPT !.labels[label] = removed.label])
                    ELSE Err("session_not_found")
          [] cmd.op = "remove" /\ ~IsSome(cmd.session_id) ->
               IF dropped.ret THEN Ok(dropped.store) ELSE Err("label_not_found")
          [] cmd.op = "describe" ->
               IF ~HasLabel(st, label) THEN Err("label_not_found")
               ELSE Ok([st EXCEPT !.labels[label].description = cmd.description])

\* The file the two start on: none, or a store with a label that holds a
\* session.
RaceStore ==
    [labels |-> [n \in {"a"} |->
        [description |-> None,
         sessions |-> <<Session("x", "/p", None, 1)>>]]]

RaceFiles == {Missing, Save(RaceStore)}

NotStarted == [pc |-> "start", cmd |-> None, snapshot |-> None,
               content |-> None, result |-> None, early |-> FALSE,
               wrote_last |-> FALSE, events |-> <<>>]

InitRace ==
    /\ file \in RaceFiles
    /\ procs = [p \in Procs |-> NotStarted]
    /\ last = Call("none", file)
    /\ lbl = LabelNew(None)
    /\ store = StoreNew

\* The process is started with a command: storage.load() and the change in
\* memory. early records that the other process had not begun to save.
RaceLoad(p, cmd) ==
    LET loaded == Load(file)
        mutated == Mutate(cmd, loaded.v, "/p", 2)
        other == CHOOSE q \in Procs : q # p
        began == [NotStarted EXCEPT
                     !.cmd = Some(cmd),
                     !.early = procs[other].pc \in {"start", "save"}]
    IN  /\ procs[p].pc = "start"
        /\ procs' = [procs EXCEPT ![p] =
              IF ~loaded.ok
              THEN [began EXCEPT !.pc = "done", !.result = Some("load_error"),
                                 !.events = <<"load">>]
              ELSE IF ~mutated.ok
              THEN [began EXCEPT !.pc = "done", !.result = Some(mutated.e),
                                 !.snapshot = Some(loaded.v),
                                 !.events = <<"load">>]
              ELSE [began EXCEPT !.pc = "save", !.snapshot = Some(loaded.v),
                                 !.content = Some(Save(mutated.v)),
                                 !.events = <<"load", "mutate">>]]
        /\ UNCHANGED <<file, last, lbl, store>>

\* storage.save, first half: fs::write opens the file.
RaceCreate(p) ==
    /\ procs[p].pc = "save"
    /\ file' = FsCreate(file)
    /\ procs' = [procs EXCEPT ![p].pc = "write",
                              ![p].events = Append(@, "save")]
    /\ UNCHANGED <<last, lbl, store>>

\* storage.save, second half: fs::write writes the text; the command returns
\* Ok(()).
RaceWriteAll(p) ==
    /\ procs[p].pc = "write"
    /\ file' = FsWriteAll(file, Unwrap(procs[p].content))
    /\ procs' = [q \in Procs |->
          IF q = p
          THEN [procs[q] EXCEPT !.pc = "done", !.result = Some("ok"),
                                !.wrote_last = TRUE]
          ELSE [procs[q] EXCEPT !.wrote_last = FALSE]]
    /\ UNCHANGED <<last, lbl, store>>

\* The process is killed from outside after its load: before it has begun
\* to save, or after fs::write has opened the file and before it has
\* written.
RaceInterrupt(p) ==
    /\ procs[p].pc \in {"save", "write"}
    /\ procs' = [procs EXCEPT ![p].pc = "interrupted"]
    /\ UNCHANGED <<file, last, lbl, store>>

NextRace ==
    \/ \E p \in Procs, cmd \in RaceCommands : RaceLoad(p, cmd)
    \/ \E p \in Procs : RaceCreate(p)
    \/ \E p \in Procs : RaceWriteAll(p)
    \/ \E p \in Procs : RaceInterrupt(p)

SpecRace == InitRace /\ [][NextRace]_vars

-----------------------------------------------------------------------------
(* SpecLabel: the methods of Label called on one value, as the unit tests  *)
(* of data.rs do                                                           *)

MethodCall(op, before) ==
    [op |-> op, before |-> before, session_id |-> None, ret |-> None]

InitLabel ==
    /\ lbl \in {LabelNew(d) : d \in OptDescriptions}
    /\ last = MethodCall("none", lbl)
    /\ file = Missing
    /\ store = StoreNew
    /\ procs = <<>>

LabelAddSession(session) ==
    /\ Idle
    /\ Len(lbl.sessions) < MaxLen
    /\ lbl' = add_session(lbl, session)
    /\ last' = MethodCall("add_session", lbl)
    /\ UNCHANGED <<file, store, procs>>

LabelRemoveSession(session_id) ==
    /\ Idle
    /\ lbl' = remove_session(lbl, session_id).label
    /\ last' = [MethodCall("remove_session", lbl) EXCEPT
                   !.session_id = Some(session_id),
                   !.ret = Some(remove_session(lbl, session_id).ret)]
    /\ UNCHANGED <<file, store, procs>>

LabelLatestSession ==
    /\ Idle
    /\ last' = [MethodCall("latest_session", lbl) EXCEPT
                   !.ret = Some(latest_session(lbl))]
    /\ UNCHANGED <<file, lbl, store, procs>>

\* The caller is done with what the method returned.
LabelReturn ==
    /\ ~Idle
    /\ last' = MethodCall("none", lbl)
    /\ UNCHANGED <<file, lbl, store, procs>>

NextLabel ==
    \/ \E session_id \in SessionIds, path \in Paths, created_at \in LabelTimes :
          LabelAddSession(Session(session_id, path, None, created_at))
    \/ \E session_id \in SessionIds : LabelRemoveSession(session_id)
    \/ LabelLatestSession
    \/ LabelReturn

SpecLabel == InitLabel /\ [][NextLabel]_vars

-----------------------------------------------------------------------------
(* SpecStorage: Storage::save of a store the caller holds, and             *)
(* Storage::load, on a file that starts in any of its kinds                *)

SavedSessions ==
    {Session("x", "/p", d, t) :
        d \in {None} \cup {Some(s) : s \in SavedDescriptions}, t \in Times}

SavedSequences(n) == UNION {[1..k -> SavedSessions] : k \in 0..n}

SavedLabels(n) ==
    {[description |-> d, sessions |-> s] :
        d \in {None} \cup {Some(x) : x \in SavedDescriptions},
        s \in SavedSequences(n)}

\* Every store over the label names that holds at most MaxSaved sessions.
StoreSet ==
    UNION {
        {[labels |-> m] : m \in
            {m \in [names -> SavedLabels(MaxSaved)] :
                SumSessions([labels |-> m], names) <= MaxSaved}}
        : names \in SUBSET LabelNames}

StorageCall(op, before, saved, ret) ==
    [op |-> op, before |-> before, saved |-> saved, ret |-> ret]

InitStorage ==
    /\ store \in StoreSet
    /\ file \in InitFiles
    /\ last = StorageCall("none", file, FALSE, None)
    /\ lbl = LabelNew(None)
    /\ procs = <<>>

StorageSave ==
    /\ file' = Save(store)
    /\ last' = StorageCall("save", file, TRUE, None)
    /\ UNCHANGED <<lbl, store, procs>>

StorageLoad ==
    /\ last' = StorageCall("load", file, last.saved, Some(Load(file)))
    /\ UNCHANGED <<file, lbl, store, procs>>

NextStorage == StorageSave \/ StorageLoad

SpecStorage == InitStorage /\ [][NextStorage]_vars

-----------------------------------------------------------------------------
(* SpecStore: the methods of Store on one store in memory, called one      *)
(* after the other; last keeps the call just made and the name of the      *)
(* method and the label of the call before it                              *)

StoreSession == Session("x", "/p", None, 1)

StoreCall(op, name, ret) ==
    [op |-> op, name |-> name, before |-> store, ret |-> ret,
     prev_op |-> last.op, prev_name |-> last.name]

InitStore ==
    /\ store = StoreNew
    /\ last = [op |-> "none", name |-> None, before |-> store, ret |-> None,
               prev_op |-> "none", prev_name |-> None]
    /\ file = Missing
    /\ lbl = LabelNew(None)
    /\ procs = <<>>

\* store.labels.insert(name, Label::new(description))
StoreInsert(name, description) ==
    /\ store' = [store EXCEPT !.labels = Insert(@, name, LabelNew(description))]
    /\ last' = StoreCall("insert", Some(name), None)
    /\ UNCHANGED <<file, lbl, procs>>

\* store.get_or_create_label(name); what it returns is the entry of name.
StoreGetOrCreateLabel(name) ==
    /\ store' = get_or_create_label(store, name)
    /\ last' = StoreCall("get_or_create_label", Some(name),
                         Some(get_or_create_label(store, name).labels[name]))
    /\ UNCHANGED <<file, lbl, procs>>

\* store.get_or_create_label(name).add_session(session)
StoreAddSession(name) ==
    /\ IF HasLabel(store, name)
       THEN Len(store.labels[name].sessions) < MaxPushed ELSE TRUE
    /\ store' = [get_or_create_label(store, name) EXCEPT
                    !.labels[name] = add_session(@, StoreSession)]
    /\ last' = StoreCall("add_session", Some(name), None)
    /\ UNCHANGED <<file, lbl, procs>>

StoreRemoveLabel(name) ==
    /\ store' = remove_label(store, name).store
    /\ last' = StoreCall("remove_label", Some(name),
                         Some(remove_label(store, name).ret))
    /\ UNCHANGED <<file, lbl, procs>>

NextStore ==
    \/ \E name \in LabelNames, d \in StoreDescriptions :
          StoreInsert(name, Some(d))
    \/ \E name \in LabelNames : StoreGetOrCreateLabel(name)
    \/ \E name \in LabelNames : StoreAddSession(name)
    \/ \E name \in LabelNames : StoreRemoveLabel(name)

SpecStore == InitStore /\ [][NextStore]_vars

-----------------------------------------------------------------------------
(* SpecPair: commands run one after another, each starting when the one    *)
(* before has returned; the state keeps the last call and the one before   *)

InitPair ==
    /\ file \in {Missing, NullDescriptionDoc}
    /\ last = Call("none", file)
    /\ lbl = LabelNew(None)
    /\ store = StoreNew
    /\ procs = <<>>

PairAdd(label, session_id, cwd, now) ==
    LET outcome == add(file, label, session_id, None, cwd, now, "written")
    IN  /\ TotalSessions(file) < MaxPair
        /\ file' = outcome.file
        /\ last' = Returned(
              [Call("add", file) EXCEPT
                  !.label = Some(label), !.session_id = Some(session_id),
                  !.cwd = IF outcome.result # "load_error" /\ cwd.ok
                          THEN Some(cwd.v) ELSE None,
                  !.now = IF outcome.result = "ok" THEN Some(now) ELSE None],
              outcome)
        /\ procs' = <<last>>
        /\ UNCHANGED <<lbl, store>>

PairRemove(label, session_id) ==
    LET outcome == remove(file, label, session_id, "written")
    IN  /\ file' = outcome.file
        /\ last' = Returned(
              [Call("remove", file) EXCEPT
                  !.label = Some(label), !.session_id = session_id],
              outcome)
        /\ procs' = <<last>>
        /\ UNCHANGED <<lbl, store>>

PairDescribe(label, description) ==
    LET outcome == describe(file, label, description, "written")
    IN  /\ file' = outcome.file
        /\ last' = Returned(
              [Call("describe", file) EXCEPT
                  !.label = Some(label), !.description = description],
              outcome)
        /\ procs' = <<last>>
        /\ UNCHANGED <<lbl, store>>

PairTimes == {1}

NextPair ==
    \/ \E label \in LabelNames, session_id \in SessionIds,
          cwd \in CwdAnswers, now \in PairTimes :
          PairAdd(label, session_id, cwd, now)
    \/ \E label \in LabelNames,
          session_id \in {None} \cup {Some(i) : i \in SessionIds} :
          PairRemove(label, session_id)
    \/ \E label \in LabelNames, description \in {Some("d")} :
          PairDescribe(label, description)

SpecPair == InitPair /\ [][NextPair]_vars

-----------------------------------------------------------------------------
(* Properties                                                              *)

\* What the claims say of a command is read off the call just made: the
\* store the file held before it, and the store it holds now.
Old == Load(last.before).v
New == Load(file).v
SessionsIn(st, name) ==
    IF HasLabel(st, name) THEN st.labels[name].sessions ELSE <<>>
OldSessions(name) == SessionsIn(Old, name)

\* Every label other than name is the same in both stores.
OtherLabelsSame(a, b, name) ==
    /\ DOMAIN a.labels \ {name} = DOMAIN b.labels \ {name}
    /\ \A n \in DOMAIN a.labels \ {name} : a.labels[n] = b.labels[n]

\* after is before without the sessions of the given id, the others kept in
\* their order: the k-th session of after is the k-th session of before
\* whose id differs.
KeptPositions(before, id) ==
    {i \in 1..Len(before) : before[i].session_id # id}

KthKept(before, id, k) ==
    CHOOSE i \in KeptPositions(before, id) :
        Cardinality({j \in KeptPositions(before, id) : j <= i}) = k

IsWithout(after, before, id) ==
    /\ Len(after) = Cardinality(KeptPositions(before, id))
    /\ \A k \in 1..Len(after) : after[k] = before[KthKept(before, id, k)]

HasSessionId(sessions, id) ==
    \E i \in 1..Len(sessions) : sessions[i].session_id = id

Failed(result) ==
    /\ last.result = result
    /\ last.saves = 0
    /\ file = last.before

\* C1: after add(L, id, description) succeeds, the file loads to a store in
\* which L exists and holds its previous sessions (none if L was absent),
\* unchanged and in order, followed by exactly one new session with the given
\* id, the given description (None stays None, Some stays Some), the caller's
\* working directory and the caller's timestamp; a session with the same id
\* is neither replaced nor dropped.
C1_AddAppendsOneSession ==
    LET before == Load(last.before)
        after == Load(file)
        old == before.v
        new == after.v
    IN
        (last.op = "add" /\ last.result = "ok") =>
            LET L == Unwrap(last.label)
                previous == SessionsIn(old, L)
                now == new.labels[L].sessions
            IN  /\ before.ok
                /\ after.ok
                /\ HasLabel(new, L)
                /\ Len(now) = Len(previous) + 1
                /\ \A i \in 1..Len(previous) : now[i] = previous[i]
                /\ now[Len(now)].session_id = Unwrap(last.session_id)
                /\ now[Len(now)].description = last.description
                /\ now[Len(now)].path = Unwrap(last.cwd)
                /\ now[Len(now)].created_at = Unwrap(last.now)

\* add succeeded on a label that already held a session with the same id,
\* and the new session carries a description.
C1_Witness ==
    /\ last.op = "add" /\ last.result = "ok"
    /\ HasSessionId(OldSessions(Unwrap(last.label)), Unwrap(last.session_id))
    /\ IsSome(last.description)
    /\ \E i \in 1..Len(OldSessions(Unwrap(last.label))) :
           OldSessions(Unwrap(last.label))[i].description = None

\* C2: save(s) followed by load returns s: the same label names, for each
\* label the same description (None stays None and is not read back as
\* Some(""), Some("") stays Some("")) and the same sessions in the same order
\* with all four fields equal.
C2_SaveLoadRoundTrip ==
    (last.op = "load" /\ last.saved) =>
        LET loaded == Unwrap(last.ret)
        IN  /\ loaded.ok
            /\ DOMAIN loaded.v.labels = DOMAIN store.labels
            /\ \A n \in DOMAIN store.labels :
                  /\ loaded.v.labels[n].description = store.labels[n].description
                  /\ Len(loaded.v.labels[n].sessions) = Len(store.labels[n].sessions)
                  /\ \A i \in 1..Len(store.labels[n].sessions) :
                        LET r == loaded.v.labels[n].sessions[i]
                            s == store.labels[n].sessions[i]
                        IN  /\ r.session_id = s.session_id
                            /\ r.path = s.path
                            /\ r.description = s.description
                            /\ r.created_at = s.created_at

\* A store was saved and loaded that has a label without description, a
\* label described by the empty string, and two sessions in one label of
\* which one has no description and the other the empty one.
C2_Witness ==
    /\ last.op = "load" /\ last.saved
    /\ \E n, m \in DOMAIN store.labels :
          /\ store.labels[n].description = None
          /\ store.labels[m].description = Some("")
          /\ Len(store.labels[n].sessions) = 2
          /\ store.labels[n].sessions[1].description = None
          /\ store.labels[n].sessions[2].description = Some("")
          /\ store.labels[n].sessions[1].created_at
                > store.labels[n].sessions[2].created_at

\* C3: remove_session(label, id) leaves exactly the sessions whose id differs
\* from id, in their original order, removing every match; it returns true
\* iff some session had the id, and when it returns false the sessions are
\* unchanged.
C3_RemoveSessionRemovesAll ==
    (last.op = "remove_session") =>
        LET id == Unwrap(last.session_id)
            before == last.before.sessions
        IN  /\ IsWithout(lbl.sessions, before, id)
            /\ ~HasSessionId(lbl.sessions, id)
            /\ Unwrap(last.ret) = HasSessionId(before, id)
            /\ (Unwrap(last.ret) = FALSE) => (lbl.sessions = before)
            /\ lbl.description = last.before.description

\* remove_session removed two sessions of one id that stood around a session
\* of another id, and two sessions were left.
C3_Witness ==
    /\ last.op = "remove_session"
    /\ Unwrap(last.ret) = TRUE
    /\ Len(last.before.sessions) = 3
    /\ last.before.sessions[1].session_id = Unwrap(last.session_id)
    /\ last.before.sessions[2].session_id # Unwrap(last.session_id)
    /\ last.before.sessions[3].session_id = Unwrap(last.session_id)
    /\ Len(lbl.sessions) = 1

\* C4: latest_session returns None iff the label has no session; otherwise
\* it returns a session of the label whose created_at is at least that of
\* every session of the label.
C4_LatestSessionIsMaximal ==
    (last.op = "latest_session") =>
        LET ret == Unwrap(last.ret)
        IN  /\ (ret = None) <=> (lbl.sessions = <<>>)
            /\ (ret # None) =>
                  /\ \E i \in 1..Len(lbl.sessions) : lbl.sessions[i] = Unwrap(ret)
                  /\ \A i \in 1..Len(lbl.sessions) :
                        Unwrap(ret).created_at >= lbl.sessions[i].created_at

\* latest_session was asked of sessions stamped 1, 3, 2 (the oldest first,
\* the most recent in the middle) and answered the one stamped 3.
C4_Witness ==
    /\ last.op = "latest_session"
    /\ Len(lbl.sessions) = 3
    /\ lbl.sessions[1].created_at = 1
    /\ lbl.sessions[2].created_at = 3
    /\ lbl.sessions[3].created_at = 2
    /\ Unwrap(last.ret) = Some(lbl.sessions[2])

\* C5: load of a file whose content is not blank and is no encoding of a
\* store returns an error, never a store, and leaves the file as it was.
C5_LoadMalformedFails ==
    (last.op = "load" /\ last.before \in MalformedFiles) =>
        /\ ~Unwrap(last.ret).ok
        /\ file = last.before

\* load failed on the JSON document {"labels":{"a":{}}}, which is valid JSON
\* and no store.
C5_Witness ==
    /\ last.op = "load"
    /\ last.before = NoSessionsDoc
    /\ ~Unwrap(last.ret).ok

\* C6: load returns an empty store without error when the file is missing
\* and when it is empty or holds only whitespace, and neither creates nor
\* changes the file.
C6_LoadMissingOrBlankIsEmpty ==
    (last.op = "load" /\ last.before \in {Missing} \cup BlankFiles) =>
        /\ Unwrap(last.ret).ok
        /\ DOMAIN Unwrap(last.ret).v.labels = {}
        /\ file = last.before

\* load answered the empty store for a file of whitespace only.
C6_Witness ==
    /\ last.op = "load"
    /\ last.before = WhitespaceText
    /\ Unwrap(last.ret) = Ok(StoreNew)
    /\ file = WhitespaceText

\* C7: resume(L, pick) fails with not-found when L is absent and with the
\* empty-label error when L has no session, for both values of pick, and in
\* neither case is the selector or the process runner invoked.
C7_ResumeFailsWithoutSession ==
    LET before == Load(last.before)
        after == Load(file)
        old == before.v
        new == after.v
    IN
        (last.op = "resume" /\ before.ok) =>
            LET L == Unwrap(last.label)
            IN  /\ ~HasLabel(old, L) =>
                      /\ Failed("label_not_found")
                      /\ last.selector = <<>> /\ last.runner = <<>>
                /\ (HasLabel(old, L) /\ old.labels[L].sessions = <<>>) =>
                      /\ Failed("no_sessions")
                      /\ last.selector = <<>> /\ last.runner = <<>>

\* resume with the pick flag failed on an empty label while another label
\* held sessions.
C7_Witness ==
    /\ last.op = "resume" /\ last.pick
    /\ last.result = "no_sessions"
    /\ HasLabel(Old, Unwrap(last.label))
    /\ \E n \in DOMAIN Old.labels : Old.labels[n].sessions # <<>>

\* C8: remove(L, Some(id)) fails, saving nothing and leaving the file as it
\* was, when L is absent and when L holds no session with that id; when L
\* holds one it succeeds, and the file then loads to a store whose L has no
\* session with that id, every other session of L in place, and every other
\* label unchanged.
C8_RemoveSession ==
    LET before == Load(last.before)
        after == Load(file)
        old == before.v
        new == after.v
    IN
        (last.op = "remove" /\ IsSome(last.session_id) /\ before.ok) =>
            LET L == Unwrap(last.label)
                id == Unwrap(last.session_id)
            IN  /\ ~HasLabel(old, L) => Failed("label_not_found")
                /\ (HasLabel(old, L) /\ ~HasSessionId(SessionsIn(old, L), id)) =>
                      Failed("session_not_found")
                /\ (HasLabel(old, L) /\ HasSessionId(SessionsIn(old, L), id)) =>
                      /\ last.result = "ok"
                      /\ after.ok
                      /\ HasLabel(new, L)
                      /\ ~HasSessionId(new.labels[L].sessions, id)
                      /\ IsWithout(new.labels[L].sessions, SessionsIn(old, L), id)
                      /\ new.labels[L].description = old.labels[L].description
                      /\ OtherLabelsSame(old, new, L)

\* remove(L, Some(id)) succeeded where L held a session with the id and one
\* without, and another label existed.
C8_Witness ==
    /\ last.op = "remove" /\ IsSome(last.session_id) /\ last.result = "ok"
    /\ Len(OldSessions(Unwrap(last.label))) = 2
    /\ Len(New.labels[Unwrap(last.label)].sessions) = 1
    /\ DOMAIN Old.labels = LabelNames

\* C9: remove(L, None) on a present label succeeds and the file then loads
\* to a store without L and with every other label unchanged; on an absent
\* label it fails with not-found, saves nothing and leaves the file as it
\* was.
C9_RemoveLabel ==
    LET before == Load(last.before)
        after == Load(file)
        old == before.v
        new == after.v
    IN
        (last.op = "remove" /\ last.session_id = None /\ before.ok) =>
            LET L == Unwrap(last.label)
            IN  /\ HasLabel(old, L) =>
                      /\ last.result = "ok"
                      /\ after.ok
                      /\ ~HasLabel(new, L)
                      /\ OtherLabelsSame(old, new, L)
                /\ ~HasLabel(old, L) => Failed("label_not_found")

\* remove(L, None) succeeded on a label that held sessions, next to another
\* label that held one too.
C9_Witness ==
    /\ last.op = "remove" /\ last.session_id = None /\ last.result = "ok"
    /\ OldSessions(Unwrap(last.label)) # <<>>
    /\ \E n \in DOMAIN New.labels : New.labels[n].sessions # <<>>

\* C10: describe(L, d) on a present label makes the persisted description of
\* L equal to d (None clears it) and leaves L's sessions and every other
\* label unchanged; on an absent label it fails with not-found, does not
\* create L and saves nothing.
C10_Describe ==
    LET before == Load(last.before)
        after == Load(file)
        old == before.v
        new == after.v
    IN
        (last.op = "describe" /\ before.ok) =>
            LET L == Unwrap(last.label)
            IN  /\ HasLabel(old, L) =>
                      /\ last.result = "ok"
                      /\ after.ok
                      /\ HasLabel(new, L)
                      /\ new.labels[L].description = last.description
                      /\ new.labels[L].sessions = old.labels[L].sessions
                      /\ OtherLabelsSame(old, new, L)
                /\ ~HasLabel(old, L) =>
                      /\ Failed("label_not_found")
                      /\ after.ok /\ ~HasLabel(new, L)

\* describe(L, None) cleared the description of a label that had one and
\* held a session, next to another label.
C10_Witness ==
    /\ last.op = "describe" /\ last.result = "ok"
    /\ last.description = None
    /\ IsSome(Old.labels[Unwrap(last.label)].description)
    /\ OldSessions(Unwrap(last.label)) # <<>>
    /\ DOMAIN Old.labels = LabelNames

\* C11: remove_label(name) on a store that has the label returns true and
\* deletes the entry; on a store that has not, it returns false and leaves the
\* store as it was; no other label is affected; a second call with the same
\* name right after the first returns false and leaves the store as the first
\* call left it.
C11_RemoveLabelMethod ==
    last.op = "remove_label" =>
        LET name == Unwrap(last.name)
        IN  /\ HasLabel(last.before, name) =>
                  /\ last.ret = Some(TRUE)
                  /\ ~HasLabel(store, name)
            /\ ~HasLabel(last.before, name) =>
                  /\ last.ret = Some(FALSE)
                  /\ store = last.before
            /\ OtherLabelsSame(last.before, store, name)
            /\ (last.prev_op = "remove_label" /\ last.prev_name = last.name) =>
                  /\ last.ret = Some(FALSE)
                  /\ store = last.before

\* remove_label was called twice in a row with the same name, in a store
\* where another label holds a session.
C11_Witness ==
    /\ last.op = "remove_label"
    /\ last.prev_op = "remove_label" /\ last.prev_name = last.name
    /\ last.ret = Some(FALSE)
    /\ \E n \in DOMAIN store.labels : store.labels[n].sessions # <<>>

\* C17: get_or_create_label(name) on a store that has the label returns that
\* label and leaves the store as it was; on a store that has not, it inserts
\* exactly one label, without description and without sessions, returns it,
\* and leaves every other label as it was; a second call with the same name
\* right after the first leaves the store as the first call left it.
C17_GetOrCreateLabel ==
    last.op = "get_or_create_label" =>
        LET name == Unwrap(last.name)
        IN  /\ HasLabel(last.before, name) =>
                  /\ last.ret = Some(last.before.labels[name])
                  /\ store = last.before
            /\ ~HasLabel(last.before, name) =>
                  /\ DOMAIN store.labels = DOMAIN last.before.labels \cup {name}
                  /\ store.labels[name] = [description |-> None, sessions |-> <<>>]
                  /\ last.ret = Some(store.labels[name])
            /\ OtherLabelsSame(last.before, store, name)
            /\ (last.prev_op = "get_or_create_label"
                    /\ last.prev_name = last.name) =>
                  store = last.before

\* get_or_create_label returned a label that had a description and sessions,
\* in a store that holds another label.
C17_Witness ==
    /\ last.op = "get_or_create_label"
    /\ HasLabel(last.before, Unwrap(last.name))
    /\ IsSome(Unwrap(last.ret).description)
    /\ Len(Unwrap(last.ret).sessions) = MaxPushed
    /\ Cardinality(DOMAIN store.labels) = 2

\* The one-to-one maps of 1..n onto itself.
Perms(n) == {p \in [1..n -> 1..n] : \A i, j \in 1..n : p[i] = p[j] => i = j}

\* C12: list(Some(L)) on a store that has L succeeds, also when L has no
\* session, and shows every session of L exactly once, in non-increasing
\* order of created_at, sessions of equal created_at in the order they have
\* in the label; on a store without L it fails with the not-found error.
C12_ListLabel ==
    (last.op = "list" /\ IsSome(last.label)) =>
        LET before == Load(last.before)
            L == Unwrap(last.label)
            sessions == before.v.labels[L].sessions
            shown == last.out
        IN  before.ok =>
            IF ~HasLabel(before.v, L) THEN Failed("label_not_found")
            ELSE /\ last.result = "ok"
                 /\ Len(shown) = Len(sessions)
                 /\ \E p \in Perms(Len(sessions)) :
                       /\ \A k \in 1..Len(shown) : shown[k] = sessions[p[k]]
                       /\ \A k, l \in 1..Len(shown) :
                             k < l =>
                                /\ shown[k].created_at >= shown[l].created_at
                                /\ shown[k].created_at = shown[l].created_at
                                       => p[k] < p[l]

\* list showed a label of two different sessions that have the same
\* timestamp.
C12_Witness ==
    /\ last.op = "list" /\ IsSome(last.label) /\ last.result = "ok"
    /\ Len(last.out) = 2
    /\ last.out[1].created_at = last.out[2].created_at
    /\ last.out[1] # last.out[2]

\* What list(None) shows of a store: every label once, in ascending order of
\* the names, each with the number of its sessions and its description.
ListsEveryLabel(shown, st) ==
    /\ Len(shown) = Cardinality(DOMAIN st.labels)
    /\ {shown[i].name : i \in 1..Len(shown)} = DOMAIN st.labels
    /\ \A i, j \in 1..Len(shown) :
          i < j => NameRank(shown[i].name) < NameRank(shown[j].name)
    /\ \A i \in 1..Len(shown) :
          /\ shown[i].session_count = Len(st.labels[shown[i].name].sessions)
          /\ shown[i].description = st.labels[shown[i].name].description

\* C13, as the claim states it: list(None) never fails; it shows nothing of
\* an empty store and otherwise every label exactly once, in ascending order
\* of the names, with its session count and description.
C13_ListAllNeverFails ==
    (last.op = "list" /\ last.label = None) =>
        LET before == Load(last.before)
        IN  /\ last.result = "ok"
            /\ before.ok => ListsEveryLabel(last.out, before.v)

\* C13, amended: list(None) fails when the file does not load, and only
\* then; on a file that loads it shows nothing of an empty store and
\* otherwise every label exactly once, in ascending order of the names, with
\* its session count and description.
C13_ListAll ==
    (last.op = "list" /\ last.label = None) =>
        LET before == Load(last.before)
        IN  IF before.ok
            THEN /\ last.result = "ok"
                 /\ ListsEveryLabel(last.out, before.v)
                 /\ (before.v.labels = <<>>) => last.out = <<>>
            ELSE Failed("load_error")

\* list(None) showed two labels, one of them with a description.
C13_Witness ==
    /\ last.op = "list" /\ last.label = None /\ last.result = "ok"
    /\ Len(last.out) = 2
    /\ \E i \in 1..2 : IsSome(last.out[i].description)

\* C15: resume, list and config never save and leave the data file as it
\* was, whatever their outcome; a missing file stays missing.
C15_ReadOnlyCommands ==
    last.op \in {"resume", "list", "config"} =>
        /\ last.saves = 0
        /\ file = last.before
        /\ last.before = Missing => file = Missing

\* resume launched the tool after the selector was asked.
C15_Witness ==
    /\ last.op = "resume" /\ last.result = "ok"
    /\ last.selector # <<>> /\ last.runner # <<>>

\* C16: on a file of malformed content each of add, remove, describe, resume
\* and list fails with the load error, saves nothing and leaves the content
\* as it was; the content stays the same over any sequence of them.
C16_MalformedFileStays ==
    /\ (last.op \in {"add", "remove", "describe", "resume", "list"}
            /\ last.before \in MalformedFiles) =>
          Failed("load_error")
    /\ file \in MalformedFiles => last.before = file

\* add was called on a file that holds a JSON document which is no store.
C16_Witness ==
    /\ last.op = "add" /\ last.before = NoLabelsDoc
    /\ last.result = "load_error"
    /\ file = NoLabelsDoc

\* C18: labels are never pruned. remove(L, Some(id)) that succeeds leaves L in
\* the saved store, with its description, also when no session is left; a
\* label without sessions stays addressable: list(Some(L)) and describe(L, d)
\* succeed on it, resume(L) fails for the want of sessions and not as a label
\* not found, and every command other than remove(L, None) leaves it in the
\* store.
C18_LabelsNeverPruned ==
    LET before == Load(last.before)
        old == before.v
        new == Load(file).v
    IN  before.ok =>
        /\ (last.op = "remove" /\ IsSome(last.session_id)
                /\ last.result = "ok") =>
              LET L == Unwrap(last.label)
              IN  /\ HasLabel(new, L)
                  /\ new.labels[L].description = old.labels[L].description
                  /\ IsWithout(new.labels[L].sessions, old.labels[L].sessions,
                               Unwrap(last.session_id))
        /\ \A n \in DOMAIN old.labels :
              old.labels[n].sessions = <<>> =>
                 /\ (last.op = "list" /\ last.label = Some(n)) =>
                       last.result = "ok"
                 /\ (last.op = "describe" /\ last.label = Some(n)) =>
                       last.result = "ok"
                 /\ (last.op = "resume" /\ last.label = Some(n)) =>
                       Failed("no_sessions")
                 /\ ~(last.op = "remove" /\ last.label = Some(n)
                         /\ last.session_id = None) =>
                       HasLabel(new, n)

\* remove(L, Some(id)) took the last session of a label that has a
\* description.
C18_Witness ==
    /\ last.op = "remove" /\ IsSome(last.session_id) /\ last.result = "ok"
    /\ New.labels[Unwrap(last.label)].sessions = <<>>
    /\ IsSome(New.labels[Unwrap(last.label)].description)

C14_AllOrNothing ==
    last.op \in {"add", "remove", "describe"} =>
        IF last.result = "ok"
        THEN /\ last.saves = 1
             /\ Load(file).ok
             /\ file = Save(Load(file).v)
        ELSE file = last.before

\* Both processes have returned Ok(()) after each loaded the file before the
\* other began to save.
BothSavedAfterBothLoaded ==
    \A p \in Procs :
        /\ procs[p].pc = "done" /\ procs[p].result = Some("ok")
        /\ procs[p].early

\* C20: when two mutating invocations both load the file before either of
\* them saves, the file in the end is the store saved by the invocation that
\* saved last, its snapshot with only its own change; what the other one
\* changed is not in it.
C20_LastWriterWins ==
    BothSavedAfterBothLoaded =>
        \A p \in Procs :
            procs[p].wrote_last =>
                /\ file = Unwrap(procs[p].content)
                /\ Load(file).ok
                /\ Load(file).v = Mutate(Unwrap(procs[p].cmd),
                                         Unwrap(procs[p].snapshot), "/p", 2).v

\* C21: an invocation interrupted at any point of its load, mutate and save
\* never leaves a half-written file: the file then holds what it held before
\* the invocation, or the complete encoding of the mutated store. Read of a
\* process that ran alone.
C21_NeverHalfWritten ==
    \A p \in Procs :
        (/\ procs[p].pc = "interrupted"
         /\ \A q \in Procs \ {p} : procs[q].pc = "start") =>
            \/ file = last.before
            \/ file = Unwrap(procs[p].content)

\* What the command of a process changes is there in the store it loaded.
TargetFound(cmd, st) ==
    CASE cmd.op = "add" -> TRUE
      [] cmd.op = "remove" /\ IsSome(cmd.session_id) ->
            /\ HasLabel(st, cmd.label)
            /\ HasSessionId(st.labels[cmd.label].sessions,
                            Unwrap(cmd.session_id))
      [] OTHER -> HasLabel(st, cmd.label)

\* C22: in every invocation of add, remove or describe one load happens and
\* comes first, before the store in memory is changed; at most one save
\* happens and it follows the change; nothing is loaded or changed after the
\* save; the save is reached only when the change was made, and not when the
\* label or the session was not found.
C22_LoadMutateSave ==
    \A p \in Procs :
        LET e == procs[p].events
        IN  /\ e \in {<<>>, <<"load">>, <<"load", "mutate">>,
                      <<"load", "mutate", "save">>}
            /\ procs[p].pc # "start" => e # <<>>
            /\ Len(e) = 3 =>
                  TargetFound(Unwrap(procs[p].cmd), Unwrap(procs[p].snapshot))
            /\ (procs[p].pc = "done" /\ IsSome(procs[p].snapshot)
                    /\ ~TargetFound(Unwrap(procs[p].cmd),
                                    Unwrap(procs[p].snapshot))) =>
                  /\ e = <<"load">>
                  /\ procs[p].result \in {Some("label_not_found"),
                                          Some("session_not_found")}
            /\ procs[p].result = Some("ok") => Len(e) = 3

\* remove(L, Some(id)) returned session-not-found on a label that the other
\* process had made, and saved nothing.
C22_Witness ==
    \E p \in Procs :
        /\ procs[p].pc = "done"
        /\ procs[p].result = Some("session_not_found")
        /\ procs[p].events = <<"load">>
        /\ \E q \in Procs \ {p} : procs[q].events = <<"load", "mutate", "save">>

\* C27: under any interleaving of two invocations every load that succeeds
\* returns the store the file held at the start or a store that the other
\* invocation passed in full to save; no load sees the file in the middle of
\* a save.
C27_LoadSeesWholeStores ==
    \A p \in Procs :
        IsSome(procs[p].snapshot) =>
            \/ Unwrap(procs[p].snapshot) = Load(last.before).v
            \/ \E q \in Procs \ {p} :
                  /\ IsSome(procs[q].content)
                  /\ Unwrap(procs[p].snapshot)
                        = Mutate(Unwrap(procs[q].cmd),
                                 Unwrap(procs[q].snapshot), "/p", 2).v

\* The positions of the sessions whose created_at no session exceeds.
MaximalPositions(sessions) ==
    {i \in 1..Len(sessions) :
        \A j \in 1..Len(sessions) :
            sessions[i].created_at >= sessions[j].created_at}

FirstOf(positions) == CHOOSE i \in positions : \A j \in positions : i <= j
LastOf(positions) == CHOOSE i \in positions : \A j \in positions : i >= j

\* C25: latest_session is a function of the sequence of sessions: of the
\* sessions that share the maximal created_at it returns the one that is
\* last in insertion order, so equal sequences give the session at the same
\* position.
C25_LatestSessionTieBreak ==
    (last.op = "latest_session" /\ lbl.sessions # <<>>) =>
        Unwrap(last.ret)
            = Some(lbl.sessions[LastOf(MaximalPositions(lbl.sessions))])

\* latest_session was asked of three sessions of which the first two share
\* the maximal timestamp and differ, and answered the second.
C25_Witness ==
    /\ last.op = "latest_session"
    /\ Len(lbl.sessions) = 3
    /\ MaximalPositions(lbl.sessions) = {1, 2}
    /\ lbl.sessions[1] # lbl.sessions[2]
    /\ Unwrap(last.ret) = Some(lbl.sessions[2])

\* C26, as the claim states it: for a label with a session, latest_session
\* is the first entry of the created_at-descending view that the pick list
\* and list(Some(L)) show, also when sessions share the maximal created_at.
C26_LatestIsFirstOfView ==
    (last.op = "latest_session" /\ lbl.sessions # <<>>) =>
        Unwrap(last.ret) = Some(SortDesc(lbl.sessions)[1])

\* C26, amended: latest_session and the first entry of the descending view
\* have the same, maximal, created_at; they are the same session when one
\* session alone has it. When several share it, latest_session is the last of
\* them in insertion order and the first entry of the view is the first of
\* them.
C26_LatestAndFirstOfView ==
    (last.op = "latest_session" /\ lbl.sessions # <<>>) =>
        LET latest == Unwrap(Unwrap(last.ret))
            first == SortDesc(lbl.sessions)[1]
            maximal == MaximalPositions(lbl.sessions)
        IN  /\ latest.created_at = first.created_at
            /\ latest = lbl.sessions[LastOf(maximal)]
            /\ first = lbl.sessions[FirstOf(maximal)]
            /\ Cardinality(maximal) = 1 => latest = first

\* latest_session answered the second of two different sessions of one
\* timestamp, which the descending view shows first and second.
C26_Witness ==
    /\ last.op = "latest_session"
    /\ Len(lbl.sessions) = 2
    /\ lbl.sessions[1].created_at = lbl.sessions[2].created_at
    /\ lbl.sessions[1].session_id # lbl.sessions[2].session_id
    /\ Unwrap(last.ret) = Some(lbl.sessions[2])
    /\ SortDesc(lbl.sessions) = lbl.sessions

\* The sequence is sorted by created_at, most recent first.
IsDescending(items) ==
    \A i, j \in 1..Len(items) :
        i < j => items[i].created_at >= items[j].created_at

\* The sequence holds the sessions, each once.
IsPermutationOf(items, sessions) ==
    /\ Len(items) = Len(sessions)
    /\ \E p \in Perms(Len(sessions)) :
          \A i \in 1..Len(sessions) : items[i] = sessions[p[i]]

\* The process was launched for the session.
LaunchedFor(runner, session) ==
    /\ Len(runner) = 1
    /\ runner[1].session_id = session.session_id
    /\ runner[1].current_dir = session.path

\* C23: resume of a label that holds a session. With the pick flag and more
\* than one session the selector is asked once, with the label's sessions
\* sorted by created_at descending, and the session resumed is the one at
\* the index the selector answers; when the selector fails resume fails and
\* the process runner is not invoked. Without the pick flag, or with a single
\* session, the selector is not asked and the session resumed is
\* latest_session, the last of the sessions of maximal created_at.
C23_ResumeResolve ==
    last.op = "resume" =>
        LET before == Load(last.before)
            L == Unwrap(last.label)
            sessions == before.v.labels[L].sessions
        IN  (before.ok /\ HasLabel(before.v, L) /\ sessions # <<>>) =>
                IF last.pick /\ Len(sessions) > 1
                THEN /\ Len(last.selector) = 1
                     /\ IsPermutationOf(last.selector[1].items, sessions)
                     /\ IsDescending(last.selector[1].items)
                     /\ IF last.selector[1].answer.ok
                        THEN LaunchedFor(last.runner,
                                last.selector[1].items[
                                    last.selector[1].answer.v + 1])
                        ELSE /\ last.result = "selector_error"
                             /\ last.runner = <<>>
                ELSE /\ last.selector = <<>>
                     /\ LaunchedFor(last.runner,
                            sessions[LastOf(MaximalPositions(sessions))])

\* resume --pick of a label whose newer session was added last: the selector
\* was shown the newer session first, answered index 0 and the newer session
\* was resumed.
C23_Witness ==
    /\ last.op = "resume" /\ last.pick
    /\ Len(last.selector) = 1
    /\ last.selector[1].answer = Ok(0)
    /\ LET sessions == Load(last.before).v.labels[Unwrap(last.label)].sessions
       IN  /\ Len(sessions) = 2
           /\ sessions[1].created_at < sessions[2].created_at
           /\ last.selector[1].items = <<sessions[2], sessions[1]>>
           /\ LaunchedFor(last.runner, sessions[2])
           /\ sessions[1].session_id # sessions[2].session_id

\* Whether resume, on the store it loaded, came to resolve a session, and
\* which.
ResumeResolved(before) ==
    /\ last.op = "resume"
    /\ before.ok /\ HasLabel(before.v, Unwrap(last.label))
    /\ before.v.labels[Unwrap(last.label)].sessions # <<>>
    /\ last.selector # <<>> => last.selector[1].answer.ok

ResolvedSession(before) ==
    LET sessions == before.v.labels[Unwrap(last.label)].sessions
    IN  IF last.selector # <<>>
        THEN last.selector[1].items[last.selector[1].answer.v + 1]
        ELSE sessions[LastOf(MaximalPositions(sessions))]

\* C24: once resume has resolved a session the process runner is invoked
\* once, with the session's session_id as the argument and the session's path
\* as the working directory; resume succeeds exactly when the process was
\* launched and exited with success, and returns the failure to launch and
\* the exit status that is not a success as its own failure.
C24_RunnerOnceAndStatus ==
    last.op = "resume" =>
        LET before == Load(last.before)
        IN  ResumeResolved(before) =>
                /\ LaunchedFor(last.runner, ResolvedSession(before))
                /\ last.result = "ok" <=> last.runner[1].status = "ok"
                /\ last.runner[1].status = "launch_error"
                      => last.result = "launch_error"
                /\ last.runner[1].status = "exit_status"
                      => last.result = "exit_status"

\* resume launched the tool for the label's only session and the tool exited
\* with a status that is not a success.
C24_Witness ==
    /\ ResumeResolved(Load(last.before))
    /\ Len(last.runner) = 1
    /\ last.runner[1].status = "exit_status"
    /\ last.result = "exit_status"
    /\ last.runner[1].session_id
          = ResolvedSession(Load(last.before)).session_id

\* The file is missing, blank or holds a complete encoding of a store.
IsLoadable(f) ==
    \/ f = Missing
    \/ f.kind = "text" /\ TrimIsEmpty(f)
    \/ f.kind = "json" /\ StoreAccepted(f.doc)

\* C28: a command that starts on a file that is missing, blank or a valid
\* encoding of a store leaves, whether it succeeds or fails, a file that is
\* missing, blank or a valid encoding, which load reads without a parse
\* error. Every command of a sequence therefore starts on such a file when
\* the first one does.
C28_FileStaysLoadable ==
    IsLoadable(last.before) => (IsLoadable(file) /\ Load(file).ok)

\* The operation of the entity model that the command stands for, applied to
\* the store old: get_or_create_label and add_session for add, remove_session
\* or remove_label for remove, the assignment of the description for describe.
EntityOperation(call, old) ==
    LET L == Unwrap(call.label)
    IN  CASE call.op = "add" ->
               [get_or_create_label(old, L) EXCEPT
                   !.labels[L] = add_session(@,
                       Session(Unwrap(call.session_id), Unwrap(call.cwd),
                               call.description, Unwrap(call.now)))]
          [] call.op = "remove" /\ IsSome(call.session_id) ->
               [old EXCEPT !.labels[L] =
                   remove_session(@, Unwrap(call.session_id)).label]
          [] call.op = "remove" /\ ~IsSome(call.session_id) ->
               remove_label(old, L).store
          [] call.op = "describe" ->
               [old EXCEPT !.labels[L].description = call.description]
          [] OTHER -> old

\* C30: the commands, run one after another on a file that load reads,
\* refine the entity model: after every command load reads from the file the
\* store that the command's entity operation makes of the store load read
\* before it, and the same store as before after a command that failed or
\* only reads.
C30_CommandsRefineEntityModel ==
    last.op # "none" =>
        LET before == Load(last.before)
            after == Load(file)
        IN  before.ok =>
                /\ after.ok
                /\ after.v = IF last.result = "ok"
                             THEN EntityOperation(last, before.v)
                             ELSE before.v

\* C29: add(L, X, d) followed by remove(L, Some(X)), on a file that load
\* reads and with the working directory resolved. Both succeed. Where L
\* existed without a session of id X the store read from the file is the one
\* read before the add: the same labels, descriptions and sequences of
\* sessions. Where L did not exist it now exists with no session, the other
\* labels as before. Where L held sessions of id X these are gone as well,
\* the other sessions of L kept in their order.
C29_AddThenRemove ==
    (/\ procs # <<>>
     /\ procs[1].op = "add" /\ IsSome(procs[1].cwd)
     /\ last.op = "remove"
     /\ last.label = procs[1].label
     /\ last.session_id = procs[1].session_id) =>
        LET original == Load(procs[1].before)
            final == Load(file)
            L == Unwrap(last.label)
            X == Unwrap(last.session_id)
        IN  original.ok =>
                /\ procs[1].result = "ok" /\ last.result = "ok"
                /\ final.ok
                /\ CASE ~HasLabel(original.v, L) ->
                          /\ DOMAIN final.v.labels
                                = DOMAIN original.v.labels \cup {L}
                          /\ final.v.labels[L] = LabelNew(None)
                          /\ \A n \in DOMAIN original.v.labels :
                                final.v.labels[n] = original.v.labels[n]
                     [] /\ HasLabel(original.v, L)
                        /\ ~HasSessionId(original.v.labels[L].sessions, X) ->
                          final.v = original.v
                     [] OTHER ->
                          /\ final.v = [original.v EXCEPT
                                !.labels[L].sessions =
                                    SelectSeq(@, LAMBDA s : s.session_id # X)]
                          /\ Len(final.v.labels[L].sessions)
                                < Len(original.v.labels[L].sessions)

\* add L X and remove L X were run on a store whose label L has a
\* description and one session of another id, and left the store as it was.
C29_Witness ==
    /\ procs # <<>> /\ procs[1].op = "add" /\ procs[1].result = "ok"
    /\ last.op = "remove" /\ last.result = "ok"
    /\ last.label = procs[1].label /\ last.session_id = procs[1].session_id
    /\ LET original == Load(procs[1].before)
           L == Unwrap(last.label)
       IN  /\ original.ok /\ HasLabel(original.v, L)
           /\ IsSome(original.v.labels[L].description)
           /\ Len(original.v.labels[L].sessions) = 1
           /\ ~HasSessionId(original.v.labels[L].sessions,
                           Unwrap(last.session_id))
           /\ Load(file).v = original.v
           /\ file = procs[1].before

====
